---- MODULE Spec2Model ----
(***************************************************************************)
(* Model of hub/util/bugout_reporter.py (the reporting configuration file, *)
(* the process-wide reporter and its tag list) and of                      *)
(* hub/util/generate_id.py.                                                *)
(*                                                                         *)
(* Strings are sequences of tokens, so that f"username:{u}" is a           *)
(* concatenation and `"username" in tag` is a search through the tag.      *)
(* A JSON object is a function from its keys to its values; Python's None  *)
(* (JSON null) is the one-token string None.                               *)
(***************************************************************************)
EXTENDS Integers, Sequences, FiniteSets, TLC

VARIABLES
    file,      \* the file at REPORTING_CONFIG_FILE_PATH
    status,    \* module import: "uninit", "ready" or "failed"
    reporter,  \* hub_reporter: its client_id and its tags
    sink,      \* the calls made to hub_reporter.feature_report, in order
    last,      \* the last call made, its inputs and what it returned
    procs,     \* two processes running get_reporting_config() step by step
    wlog,      \* the writes those processes made to the file, in order
    gen        \* generate_id: the width, the random value and the result

vars == <<file, status, reporter, sink, last, procs, wlog, gen>>

-----------------------------------------------------------------------------
(* Values *)

None == <<"None">>

UUIDs == {<<"u1">>, <<"u2">>}
Names == {<<"alice">>, <<"bob">>}
\* what a file written through save_reporting_config(consent, client_id) or edited
\* by hand may hold as client_id
ClientIds == UUIDs \cup {<<"alice">>, <<"my-", "username">>}
\* what the callers of save_reporting_config pass as client_id and as username
ClientIdArgs == {<<"u2">>, <<"alice">>}
UsernameArgs == {<<"bob">>}

EmptyDict == [k \in {} |-> None]

Get(d, k) == IF k \in DOMAIN d THEN d[k] ELSE None

Put(d, k, v) == [x \in (DOMAIN d) \cup {k} |-> IF x = k THEN v ELSE d[x]]

\* the object with client_id c, username u and consent k; "absent" leaves the key out
MkDict(c, u, k) ==
    [x \in ({"client_id" : y \in {c} \ {<<"absent">>}}
            \cup {"username" : y \in {u} \ {<<"absent">>}}
            \cup {"consent" : y \in {k} \ {"absent"}})
        |-> CASE x = "client_id" -> c
              [] x = "username" -> u
              [] x = "consent" -> (k = "true")]

FileDicts ==
    {MkDict(c, u, k) : c \in ClientIds \cup {None, <<"absent">>},
                       u \in Names \cup {None, <<"absent">>},
                       k \in {"true", "false", "absent"}}

\* the path names no file; the file is not JSON; it is JSON but no object; an object
Absent == [kind |-> "absent", data |-> EmptyDict]
Corrupt == [kind |-> "corrupt", data |-> EmptyDict]
NonMapping == [kind |-> "nonmapping", data |-> EmptyDict]
DictFile(d) == [kind |-> "dict", data |-> d]

Files == {Absent, Corrupt, NonMapping} \cup {DictFile(d) : d \in FileDicts}

\* what the file system does to one call: whether reading the file, creating the
\* parent directory and opening the file for writing succeed
IOs == [read : BOOLEAN, mkdir : BOOLEAN, write : BOOLEAN]

\* the outcomes that differ on file f: no read is attempted of a file that is not
\* there (it counts as read), and no directory is made for one that is
IOsOn(f) ==
    {io \in IOs : IF f.kind = "absent" THEN io.read ELSE io.mkdir}

-----------------------------------------------------------------------------
(* save_reporting_config *)

\* lines 31-36: the file's content when it is a file that can be read and parsed,
\* and {} otherwise; a JSON value that is no object is loaded as it is
LoadExisting(f, io) ==
    IF f.kind = "dict" /\ io.read THEN DictFile(f.data)
    ELSE IF f.kind = "nonmapping" /\ io.read THEN NonMapping
    ELSE DictFile(EmptyDict)

AssignClientIdAlways(cfg, client_id) ==
    IF client_id # None THEN Put(cfg, "client_id", client_id) ELSE cfg

\* lines 44-45
AssignClientId(cfg, client_id) ==
    IF client_id # None /\ Get(cfg, "client_id") = None
    THEN Put(cfg, "client_id", client_id)
    ELSE cfg

\* lines 47-48
GenerateClientId(cfg, uuid) ==
    IF Get(cfg, "client_id") = None THEN Put(cfg, "client_id", uuid) ELSE cfg

\* lines 50-51
AssignUsername(cfg, username) ==
    IF username # None THEN Put(cfg, "username", username) ELSE cfg

SetConsentIfMissing(cfg, consent) ==
    IF "consent" \in DOMAIN cfg THEN cfg ELSE Put(cfg, "consent", consent)

\* line 53
SetConsent(cfg, consent) == Put(cfg, "consent", consent)

\* lines 44-53 on a loaded object
Modify(cfg, consent, client_id, username, uuid) ==
    SetConsent(
        AssignUsername(
            GenerateClientId(AssignClientId(cfg, client_id), uuid),
            username),
        consent)

\* lines 55-59: the file after open(path, "w") and json.dump. The write is taken
\* as a whole: it is refused and leaves the file as it was, or it completes; an
\* object of strings, booleans and null is read back from its JSON text as written
WriteFile(f, cfg, io) == IF io.write THEN DictFile(cfg) ELSE f

\* lines 29-61. raised: os.makedirs (line 42) or .get on a value that is no
\* object (line 44) raised, and nothing was written
save_reporting_config(f, consent, client_id, username, uuid, io) ==
    LET loaded == LoadExisting(f, io)
        raised == \/ f.kind = "absent" /\ ~io.mkdir
                  \/ loaded.kind = "nonmapping"
        cfg == Modify(loaded.data, consent, client_id, username, uuid)
    IN  IF raised
        THEN [raised |-> TRUE, ret |-> DictFile(EmptyDict), file |-> f]
        ELSE [raised |-> FALSE, ret |-> DictFile(cfg), file |-> WriteFile(f, cfg, io)]

-----------------------------------------------------------------------------
(* get_reporting_config *)

DefaultConfig == [x \in {"consent"} |-> FALSE]

SubstituteFirst(cfg) ==
    LET c == IF Get(cfg, "username") # None /\ cfg["client_id"] # cfg["username"]
             THEN Put(cfg, "client_id", cfg["username"])
             ELSE cfg
    IN  Put(c, "machine_id", c["client_id"])

\* lines 79-85, on an object that has the key client_id
Substitute(cfg) ==
    LET m == Put(cfg, "machine_id", cfg["client_id"])
    IN  IF Get(m, "username") # None /\ m["client_id"] # m["username"]
        THEN Put(m, "client_id", m["username"])
        ELSE m

\* lines 79-85 on whatever line 71 or 74 bound to reporting_config: indexing
\* raises on a value that is no object and on an object without client_id, and the
\* handler of line 87 leaves reporting_config as it is
Derive(loaded) ==
    IF loaded.kind = "dict" /\ "client_id" \in DOMAIN loaded.data
    THEN [failed |-> FALSE, ret |-> DictFile(Substitute(loaded.data))]
    ELSE [failed |-> TRUE, ret |-> loaded]

\* lines 64-91. failed: an exception reached the handler of line 87
get_reporting_config(f, uuid, io) ==
    IF f.kind = "absent"
    THEN LET s == save_reporting_config(f, TRUE, uuid, None, uuid, io)
         IN  IF s.raised
             THEN [failed |-> TRUE,
                   ret |-> DictFile(Put(DefaultConfig, "client_id", uuid)),
                   file |-> s.file]
             ELSE [failed |-> Derive(s.ret).failed,
                   ret |-> Derive(s.ret).ret,
                   file |-> s.file]
    ELSE IF ~io.read \/ f.kind = "corrupt"
    THEN [failed |-> TRUE, ret |-> DictFile(DefaultConfig), file |-> f]
    ELSE [failed |-> Derive(f).failed, ret |-> Derive(f).ret, file |-> f]

\* lines 94-97: .get raises on a value that is no object
consent_from_reporting_config_file(f, uuid, io) ==
    LET g == get_reporting_config(f, uuid, io)
    IN  IF g.ret.kind = "dict"
        THEN [raised |-> FALSE,
              ret |-> IF "consent" \in DOMAIN g.ret.data
                      THEN g.ret.data["consent"] ELSE FALSE,
              file |-> g.file]
        ELSE [raised |-> TRUE, ret |-> FALSE, file |-> g.file]

MaxEvents == 2

-----------------------------------------------------------------------------
(* The states in which nothing has run yet *)

IdleReporter == [client_id |-> None, tags |-> <<>>]
IdleLast == [op |-> "none"]
IdleProcs == <<>>
IdleGen == [pc |-> "idle"]

-----------------------------------------------------------------------------
(* The configuration store: calls of save_reporting_config,                 *)
(* get_reporting_config and consent_from_reporting_config_file, one after   *)
(* another, on a file left in any state by earlier runs or by the user      *)

Init ==
    /\ file \in Files
    /\ status = "uninit"
    /\ reporter = IdleReporter
    /\ sink = <<>>
    /\ last = IdleLast
    /\ procs = IdleProcs
    /\ wlog = <<>>
    /\ gen = IdleGen

\* what a later call needs to know of the call before it
Summary(l) ==
    IF l.op = "save"
    THEN [op |-> "save", ok |-> ~l.raised /\ l.io.write, consent |-> l.consent]
    ELSE [op |-> l.op, ok |-> FALSE, consent |-> FALSE]

Save ==
    \E consent \in BOOLEAN, client_id \in ClientIdArgs \cup {None},
       username \in UsernameArgs \cup {None}, uuid \in UUIDs, io \in IOsOn(file) :
        LET s == save_reporting_config(file, consent, client_id, username, uuid, io)
        IN  /\ file' = s.file
            /\ last' = [op |-> "save", consent |-> consent, client_id |-> client_id,
                        username |-> username, io |-> io, before |-> file,
                        raised |-> s.raised, ret |-> s.ret]
            /\ UNCHANGED <<status, reporter, sink, procs, wlog, gen>>

Load ==
    \E uuid \in UUIDs, io \in IOsOn(file) :
        LET g == get_reporting_config(file, uuid, io)
        IN  /\ file' = g.file
            /\ last' = [op |-> "load", io |-> io, before |-> file,
                        failed |-> g.failed, ret |-> g.ret]
            /\ UNCHANGED <<status, reporter, sink, procs, wlog, gen>>

GetConsent ==
    \E uuid \in UUIDs, io \in IOsOn(file) :
        LET c == consent_from_reporting_config_file(file, uuid, io)
        IN  /\ file' = c.file
            /\ last' = [op |-> "get_consent", io |-> io, before |-> file,
                        raised |-> c.raised, ret |-> c.ret, prev |-> Summary(last)]
            /\ UNCHANGED <<status, reporter, sink, procs, wlog, gen>>

Next == Save \/ Load \/ GetConsent

Spec == Init /\ [][Next]_vars

-----------------------------------------------------------------------------
(* Claims about the configuration store *)

HasClientId(f) == f.kind = "dict" /\ Get(f.data, "client_id") # None

ConfigCall == last.op \in {"save", "load", "get_consent"}

C2_FailureReturnsDefault ==
    (last.op = "load" /\ last.failed) => last.ret = DictFile(DefaultConfig)

\* C3: on a readable file holding an object with client_id c, load() returns
\* machine_id = c, and client_id = the username u when u is non-null and differs
\* from c, and client_id = c otherwise
C3_MachineIdAndSubstitution ==
    (/\ last.op = "load"
     /\ last.io.read
     /\ last.before.kind = "dict"
     /\ "client_id" \in DOMAIN last.before.data)
        => LET c == last.before.data["client_id"]
               u == Get(last.before.data, "username")
           IN  /\ last.ret.kind = "dict"
               /\ last.ret.data["machine_id"] = c
               /\ last.ret.data["client_id"] = IF u # None /\ u # c THEN u ELSE c

C3_Witness ==
    /\ last.op = "load"
    /\ last.io.read
    /\ HasClientId(last.before)
    /\ Get(last.before.data, "username") \in Names
    /\ Get(last.before.data, "username") # last.before.data["client_id"]
    /\ last.ret.data["client_id"] = last.before.data["username"]
    /\ last.ret.data["machine_id"] = last.before.data["client_id"]

\* C5 as stated: the consent check that follows a successful save(c, ...) returns c
C5_CheckAfterSaveReturnsSaved ==
    (last.op = "get_consent" /\ last.prev.op = "save" /\ last.prev.ok)
        => (~last.raised /\ last.ret = last.prev.consent)

\* C5 amended: the consent check that follows a successful save(c, ...) returns c
\* when its read of the file succeeds, and false when that read fails
C5_CheckAfterSaveReadsFile ==
    (last.op = "get_consent" /\ last.prev.op = "save" /\ last.prev.ok)
        => /\ ~last.raised
           /\ last.ret = (last.io.read /\ last.prev.consent)
           /\ last.before.data["consent"] = last.prev.consent

C5_Witness ==
    /\ last.op = "get_consent"
    /\ last.prev.op = "save" /\ last.prev.ok
    /\ last.prev.consent
    /\ last.io.read
    /\ last.ret = TRUE

-----------------------------------------------------------------------------
(* The process-wide reporter *)

UsernameTag(username) == <<"username", ":">> \o username
MachineIdTag(machine_id) == <<"machine_id", ":">> \o machine_id

\* "username" in tag
ContainsUsername(tag) == \E i \in DOMAIN tag : tag[i] = "username"

\* lines 112-121: tags=[] and the two appends
InitialTags(cfg) ==
    (IF Get(cfg, "username") # None THEN <<UsernameTag(cfg["username"])>> ELSE <<>>)
    \o (IF Get(cfg, "machine_id") # None THEN <<MachineIdTag(cfg["machine_id"])>> ELSE <<>>)

\* lines 155-159: the index of the first tag containing "username"; 0 stands for
\* (None, None)
find_current_username(tags) ==
    IF \E i \in DOMAIN tags : ContainsUsername(tags[i])
    THEN CHOOSE i \in DOMAIN tags :
            /\ ContainsUsername(tags[i])
            /\ \A j \in 1..(i - 1) : ~ContainsUsername(tags[j])
    ELSE 0

StartsWith(path, starts_with) ==
    /\ Len(path) >= Len(starts_with)
    /\ SubSeq(path, 1, Len(starts_with)) = starts_with

InjectPathAlways(path, parameters, starts_with) == Put(parameters, "Path", path)

\* lines 134-135
InjectPath(path, parameters, starts_with) ==
    IF StartsWith(path, starts_with) THEN Put(parameters, "Path", path) ELSE parameters

Fail == <<"raise">>

ResolveAndSwallow(token, outcome) ==
    [raised |-> FALSE, username |-> IF outcome = Fail THEN <<"unknown">> ELSE outcome]

\* lines 138-139: the backend call, which returns the profile's name or raises
Resolve(token, outcome) == [raised |-> outcome = Fail, username |-> outcome]

RewriteWhenBareNameDiffers(username, current_username) == username # current_username

\* line 146
RewriteNeeded(username, current_username) == UsernameTag(username) # current_username

\* lines 141-147
UpdateTags(tags, username) ==
    LET index == find_current_username(tags)
    IN  IF index = 0
        THEN [tags |-> Append(tags, UsernameTag(username)), found |-> FALSE,
              rewrote |-> FALSE]
        ELSE IF RewriteNeeded(username, tags[index])
        THEN [tags |-> [tags EXCEPT ![index] = UsernameTag(username)], found |-> TRUE,
              rewrote |-> TRUE]
        ELSE [tags |-> tags, found |-> TRUE, rewrote |-> FALSE]

\* lines 124-152
feature_report_path(tags, events, path, feature_name, parameters, starts_with, token, outcome) ==
    LET params == InjectPath(path, parameters, starts_with)
        event == [feature_name |-> feature_name, parameters |-> params]
        r == Resolve(token, outcome)
        u == UpdateTags(tags, r.username)
    IN  IF token = None
        THEN [raised |-> FALSE, tags |-> tags, sink |-> Append(events, event),
              found |-> FALSE, rewrote |-> FALSE]
        ELSE IF r.raised
        THEN [raised |-> TRUE, tags |-> tags, sink |-> events,
              found |-> FALSE, rewrote |-> FALSE]
        ELSE [raised |-> FALSE, tags |-> u.tags, sink |-> Append(events, event),
              found |-> u.found, rewrote |-> u.rewrote]

\* paths given as str, which line 133 leaves alone: one starts with the prefix, the
\* other only contains it
Paths == {<<"hub://", "x">>, <<"s3://", "hub://", "x">>}
Parameters == {EmptyDict, [x \in {"Path"} |-> <<"old">>]}
Tokens == {<<"tok">>}
DefaultPrefix == <<"hub://">>

\* lines 100-121, run when the module is imported: line 104 raises on a
\* configuration that is no object, and the import fails
Startup ==
    /\ status = "uninit"
    /\ \E uuid \in UUIDs, io \in IOsOn(file) :
        LET g == get_reporting_config(file, uuid, io)
        IN  /\ file' = g.file
            /\ IF g.ret.kind = "dict"
               THEN /\ status' = "ready"
                    /\ reporter' = [client_id |-> Get(g.ret.data, "client_id"),
                                    tags |-> InitialTags(g.ret.data)]
               ELSE /\ status' = "failed"
                    /\ UNCHANGED reporter
            /\ last' = [op |-> "startup", io |-> io, before |-> file, ret |-> g.ret]
    /\ UNCHANGED <<sink, procs, wlog, gen>>

ReportFeature ==
    /\ status = "ready"
    /\ Len(sink) < MaxEvents
    /\ \E path \in Paths, parameters \in Parameters, token \in Tokens \cup {None} :
       \E outcome \in (IF token = None THEN {None} ELSE Names \cup {Fail}) :
        LET r == feature_report_path(reporter.tags, sink, path, "load", parameters,
                                     DefaultPrefix, token, outcome)
        IN  /\ reporter' = [reporter EXCEPT !.tags = r.tags]
            /\ sink' = r.sink
            /\ last' = [op |-> "report", path |-> path, parameters |-> parameters,
                        token |-> token, outcome |-> outcome,
                        tags_before |-> reporter.tags, sink_before |-> sink,
                        raised |-> r.raised, found |-> r.found, rewrote |-> r.rewrote]
    /\ UNCHANGED <<file, status, procs, wlog, gen>>

NextReporter == Startup \/ ReportFeature

SpecReporter == Init /\ [][NextReporter]_vars

-----------------------------------------------------------------------------
(* Claims about the reporter *)

UsernameTags == {i \in DOMAIN reporter.tags : ContainsUsername(reporter.tags[i])}

\* C4 as stated: at most one tag of the reporter contains "username"
C4_AtMostOneUsernameTag == Cardinality(UsernameTags) <= 1

\* C6: a report without a token leaves the tags as they were and makes exactly one
\* call to the sink, with "Path" set to the path when the path starts with the
\* prefix and with the parameters as given when it does not
C6_NoTokenReport ==
    (last.op = "report" /\ last.token = None)
        => /\ ~last.raised
           /\ reporter.tags = last.tags_before
           /\ Len(sink) = Len(last.sink_before) + 1
           /\ SubSeq(sink, 1, Len(last.sink_before)) = last.sink_before
           /\ LET sent == sink[Len(sink)].parameters
              IN  IF last.path[1] = "hub://"
                  THEN /\ DOMAIN sent = DOMAIN last.parameters \cup {"Path"}
                       /\ sent["Path"] = last.path
                       /\ \A k \in DOMAIN last.parameters \ {"Path"} :
                            sent[k] = last.parameters[k]
                  ELSE sent = last.parameters

C6_Witness ==
    /\ last.op = "report" /\ last.token = None
    /\ last.path = <<"hub://", "x">>
    /\ last.parameters = EmptyDict
    /\ last.tags_before # <<>>
    /\ sink[Len(sink)].parameters = [x \in {"Path"} |-> <<"hub://", "x">>]

\* C7: when the username resolution of a report with a token fails, the call
\* raises, no call is made to the sink and the tags are as they were
C7_FailedResolutionAborts ==
    (last.op = "report" /\ last.token # None /\ last.outcome = Fail)
        => /\ last.raised
           /\ sink = last.sink_before
           /\ reporter.tags = last.tags_before

C7_Witness ==
    /\ last.op = "report" /\ last.token # None /\ last.outcome = Fail
    /\ last.raised
    /\ Len(sink) = 1
    /\ reporter.tags # <<>>

\* C9 as stated: a report with a token that finds a username tag rewrites it on
\* every call, also when the resolved username is the one in the tag
C9_AlwaysRewritten ==
    (last.op = "report" /\ last.token # None /\ ~last.raised /\ last.found)
        => last.rewrote

\* C9 amended: a report with a token that finds a tag containing "username"
\* rewrites it exactly when "username:" + the resolved name differs from that tag
\* (both sides of the comparison carry the prefix), and leaves the list untouched
\* when they are equal
C9_RewrittenWhenDifferent ==
    (last.op = "report" /\ last.token # None /\ ~last.raised /\ last.found)
        => LET i == find_current_username(last.tags_before)
               new == <<"username", ":">> \o last.outcome
           IN  /\ last.rewrote = (last.tags_before[i] # new)
               /\ reporter.tags = [last.tags_before EXCEPT ![i] = new]
               /\ ~last.rewrote => reporter.tags = last.tags_before

C9_Witness ==
    /\ last.op = "report" /\ last.token # None /\ ~last.raised /\ last.found
    /\ ~last.rewrote
    /\ reporter.tags = last.tags_before
    /\ \E i \in DOMAIN reporter.tags : reporter.tags[i] = <<"username", ":">> \o last.outcome

-----------------------------------------------------------------------------
(* Two processes in get_reporting_config() on a file that is not there, with *)
(* no lock: each step below is one system call or one local computation      *)

Procs == {1, 2}

Other(p) == CHOOSE q \in Procs : q # p

StartProc == [pc |-> "exists", uuid |-> None, saw |-> Absent, cfg |-> EmptyDict,
              ret |-> Absent]

InitRace ==
    /\ file = Absent
    /\ status = "uninit"
    /\ reporter = IdleReporter
    /\ sink = <<>>
    /\ last = IdleLast
    /\ procs = [p \in Procs |-> StartProc]
    /\ wlog = <<>>
    /\ gen = IdleGen

\* the identifiers the processes drew so far: uuid4 does not repeat
Drawn == {procs[p].uuid : p \in Procs} \ {None}

\* line 68
Exists(p) ==
    /\ procs[p].pc = "exists"
    /\ procs' = [procs EXCEPT ![p].pc = IF file.kind = "absent" THEN "uuid" ELSE "load"]
    /\ UNCHANGED <<file, wlog, status, reporter, sink, last, gen>>

\* lines 69-70
DrawUuid(p) ==
    /\ procs[p].pc = "uuid"
    /\ \E uuid \in UUIDs \ Drawn :
        procs' = [procs EXCEPT ![p].pc = "isfile", ![p].uuid = uuid]
    /\ UNCHANGED <<file, wlog, status, reporter, sink, last, gen>>

\* lines 73-74 and 79-91: the file was there at line 68
ReadInLoad(p) ==
    /\ procs[p].pc = "load"
    /\ \E read \in BOOLEAN :
        LET g == get_reporting_config(file, None, [read |-> read, mkdir |-> TRUE,
                                                   write |-> TRUE])
        IN  procs' = [procs EXCEPT ![p].pc = "done", ![p].saw = file, ![p].ret = g.ret]
    /\ UNCHANGED <<file, wlog, status, reporter, sink, last, gen>>

\* lines 31-53 of the save called at line 71: the test of line 31 and, on a file,
\* the read of lines 33-34; on no file, os.makedirs, which may raise into the
\* handler of line 87
ReadInSave(p) ==
    /\ procs[p].pc = "isfile"
    /\ \E io \in IOsOn(file) :
        IF file.kind = "absent" /\ ~io.mkdir
        THEN procs' = [procs EXCEPT
                ![p].pc = "done",
                ![p].ret = DictFile(Put(DefaultConfig, "client_id", procs[p].uuid))]
        ELSE procs' = [procs EXCEPT
                ![p].pc = "open",
                ![p].saw = IF io.read THEN file ELSE Corrupt,
                ![p].cfg = Modify(LoadExisting(file, io).data, TRUE, procs[p].uuid,
                                  None, procs[p].uuid)]
    /\ UNCHANGED <<file, wlog, status, reporter, sink, last, gen>>

\* line 56: open(path, "w") empties the file, or fails and the save returns
OpenForWrite(p) ==
    /\ procs[p].pc = "open"
    /\ \E write \in BOOLEAN :
        IF write
        THEN /\ file' = Corrupt
             /\ procs' = [procs EXCEPT ![p].pc = "dump"]
        ELSE /\ file' = file
             /\ procs' = [procs EXCEPT ![p].pc = "derive"]
    /\ UNCHANGED <<wlog, status, reporter, sink, last, gen>>

\* line 57: json.dump to the file just opened, which completes
Dump(p) ==
    /\ procs[p].pc = "dump"
    /\ file' = DictFile(procs[p].cfg)
    /\ wlog' = Append(wlog, [proc |-> p, cfg |-> procs[p].cfg])
    /\ procs' = [procs EXCEPT ![p].pc = "derive"]
    /\ UNCHANGED <<status, reporter, sink, last, gen>>

\* lines 61, 71 and 79-91
DeriveInLoad(p) ==
    /\ procs[p].pc = "derive"
    /\ procs' = [procs EXCEPT ![p].pc = "done",
                              ![p].ret = Derive(DictFile(procs[p].cfg)).ret]
    /\ UNCHANGED <<file, wlog, status, reporter, sink, last, gen>>

NextRace ==
    \E p \in Procs :
        \/ Exists(p)
        \/ DrawUuid(p)
        \/ ReadInLoad(p)
        \/ ReadInSave(p)
        \/ OpenForWrite(p)
        \/ Dump(p)
        \/ DeriveInLoad(p)

SpecRace == InitRace /\ [][NextRace]_vars

AllDone == \A p \in Procs : procs[p].pc = "done"

\* p read, in its save, the object the other process had written
SawOthers(p) ==
    /\ procs[p].pc \in {"open", "dump", "derive", "done"}
    /\ procs[p].saw.kind = "dict"
    /\ Get(procs[p].saw.data, "client_id") = procs[Other(p)].uuid
    /\ procs[p].uuid # None

-----------------------------------------------------------------------------
(* generate_id: a 128-bit integer is the sequence of its 16 bytes, the most *)
(* significant first                                                        *)

UuidBits == 128
BitsPerByte == 8
UuidBytes == UuidBits \div BitsPerByte
ByteRange == 0..(2 ^ BitsPerByte - 1)

\* dtype(1).itemsize of the unsigned integer types
Itemsizes == {1, 2, 4, 8, 16}

\* the bytes os.urandom can return, sampled: the same byte within each of the
\* groups 1, 2-4, 5-8 and 9-16
SampleBytes == {0, 1, 128, 255}
RandomValues ==
    {[i \in 1..UuidBytes |-> IF i = 1 THEN a ELSE IF i <= 4 THEN b
                              ELSE IF i <= 8 THEN c ELSE d] :
        a \in SampleBytes, b \in SampleBytes, c \in SampleBytes, d \in SampleBytes}

\* uuid4().int: the random bytes with the version (4) and the variant bits set
Uuid4Int(rnd) ==
    [rnd EXCEPT ![7] = (rnd[7] % 16) + 64, ![9] = (rnd[9] % 64) + 128]

ShiftForgettingBytes(itemsize) == UuidBits - itemsize

\* line 6
Shift(itemsize) == UuidBits - (BitsPerByte * itemsize)

\* value >> n, for n >= 0
ShiftRight(value, n) ==
    LET q == n \div BitsPerByte
        b == n % BitsPerByte
        moved == [i \in 1..UuidBytes |-> IF i > q THEN value[i - q] ELSE 0]
    IN  [i \in 1..UuidBytes |->
            (moved[i] \div (2 ^ b))
            + (IF i > 1 THEN (moved[i - 1] % (2 ^ b)) * (2 ^ (BitsPerByte - b)) ELSE 0)]

\* dtype(v) for an unsigned type of itemsize bytes: v when it fits, OverflowError
\* when it does not
Cast(value, itemsize) ==
    IF \A i \in 1..(UuidBytes - itemsize) : value[i] = 0
    THEN [ok |-> TRUE, value |-> SubSeq(value, UuidBytes - itemsize + 1, UuidBytes)]
    ELSE [ok |-> FALSE, value |-> <<>>]

\* lines 5-7
generate_id(itemsize, uuid_int) == Cast(ShiftRight(uuid_int, Shift(itemsize)), itemsize)

InitGen ==
    /\ file = Absent
    /\ status = "uninit"
    /\ reporter = IdleReporter
    /\ sink = <<>>
    /\ last = IdleLast
    /\ procs = IdleProcs
    /\ wlog = <<>>
    /\ \E itemsize \in Itemsizes : gen = [pc |-> "called", itemsize |-> itemsize]

\* uuid4() at line 7
DrawUuid4 ==
    /\ gen.pc = "called"
    /\ \E rnd \in RandomValues :
        gen' = [pc |-> "drawn", itemsize |-> gen.itemsize, uuid_int |-> Uuid4Int(rnd)]
    /\ UNCHANGED <<file, status, reporter, sink, last, procs, wlog>>

\* the shift and the cast of lines 6-7
GenerateId ==
    /\ gen.pc = "drawn"
    /\ LET r == generate_id(gen.itemsize, gen.uuid_int)
       IN  gen' = [pc |-> "returned", itemsize |-> gen.itemsize,
                   uuid_int |-> gen.uuid_int, ok |-> r.ok, result |-> r.value]
    /\ UNCHANGED <<file, status, reporter, sink, last, procs, wlog>>

NextGen == DrawUuid4 \/ GenerateId

SpecGen == InitGen /\ [][NextGen]_vars

\* C8: for every byte width w in {1,2,4,8,16}, generate_id returns the w most
\* significant bytes of the 128-bit value it drew, a value of w bytes and so within
\* [0, 2^(8w) - 1]
C8_MostSignificantBytes ==
    gen.pc = "returned"
        => /\ gen.ok
           /\ Len(gen.result) = gen.itemsize
           /\ \A i \in 1..gen.itemsize :
                /\ gen.result[i] = gen.uuid_int[i]
                /\ gen.result[i] \in ByteRange

C8_Witness ==
    /\ gen.pc = "returned"
    /\ gen.itemsize = 4
    /\ gen.ok
    /\ gen.result = <<255, 1, 1, 1>>
    /\ gen.uuid_int[16] = 255

====
